---- MODULE Spec2Model ----
(***************************************************************************)
(* exec_helpers: ExecHelper.execute (api.py) and Subprocess.execute_async  *)
(* / Subprocess._exec_command (subprocess_runner.py).                      *)
(*                                                                         *)
(* Several caller threads share one executor instance.  Every call of      *)
(* execute() takes the instance's RLock, launches a process, starts the    *)
(* two drainer futures, waits, possibly kills, and returns or raises.      *)
(* The spawned process and the drainer futures run concurrently with the   *)
(* caller, and go on running after the call has returned or raised.        *)
(* Timers (wait(timeout), futures.wait(timeout=1|5)) are abstracted: a     *)
(* bounded wait may give up at any moment its condition is not yet met.    *)
(***************************************************************************)
EXTENDS Integers, Sequences, FiniteSets, TLC

\* ------------------------------------------------------------- bounds
\* chunks a process writes to its output streams, both taken together
MaxOut == 1
\* calls of execute() made on the instance, all threads taken together
MaxCalls == 2
\* nesting depth of "with executor:" per thread
MaxDepth == 1
\* length of the commands given to _mask_command on its own
MaxLen == 3

\* ---------------------------------------------------------- constants
Threads == {"t1", "t2"}
Streams == {"stdout", "stderr"}

\* Optional values: None is <<>>, a present value v is <<v>>.
None == <<>>
Some(v) == <<v>>

\* returncode of a process ended by kill -9
KilledCode == 0 - 9

\* logging levels
DEBUG == "DEBUG"
INFO == "INFO"
WARNING == "WARNING"

\* errno values of an OSError of stdin.write / stdin.close; "ok" is no error
EINVAL == "EINVAL"
EPIPE == "EPIPE"
ESHUTDOWN == "ESHUTDOWN"
EIO == "EIO"
\* errno of an OSError of subprocess.Popen(...), and of Popen.kill()
ENOENT == "ENOENT"
EPERM == "EPERM"
Errnos == {"ok", EINVAL, EPIPE, ESHUTDOWN, EIO}

VARIABLES
    self_log_mask_re, \* ExecHelper.log_mask_re: the instance's masking rule
    lockOwner,  \* ExecHelper.__lock: the owning thread, None when free
    lockCount,  \* ExecHelper.__lock: recursion level of the owner
    pc,         \* per thread: its position in execute()
    ctxDepth,   \* per thread: "with executor:" blocks it is inside
    calls,      \* calls of execute() made so far on the instance
    req,        \* per thread: the arguments of its current execute()
    proc,       \* per thread: the process of its current execute()
    written,    \* per thread, stream: chunks the process wrote so far
    pipe,       \* per thread, stream: chunks in the pipe, unread
    fut,        \* per thread, stream: state of the drainer future
    result,     \* per thread: the ExecResult of its current execute()
    exit_code,  \* per thread: local exit_code of _exec_command
    expired,    \* per thread: interface.wait raised TimeoutExpired
    killMark,   \* per thread: None, or the chunks written per stream when
                \* interface.kill() was called
    outcome,    \* per thread: how its last execute() ended
    log,        \* per thread: log records of its current execute()
    masking     \* a call of _mask_command on its own: arguments and value

vars == <<self_log_mask_re, lockOwner, lockCount, pc, ctxDepth, calls, req,
          proc, written, pipe, fut, result, exit_code, expired, killMark,
          outcome, log, masking>>

\* ------------------------------------------------------------ helpers
\* the chunks 1..n in the order written
Chunks(n) == [i \in 1..n |-> i]

NoRequest == [command |-> <<>>, verbose |-> FALSE, timeout |-> None,
              stdin |-> None, log_mask_re |-> None,
              open_stdout |-> TRUE, open_stderr |-> TRUE]

NoProc == [state |-> "none", returncode |-> None, args |-> <<>>, kills |-> 0,
           stdin_data |-> None, stdin_closed |-> FALSE]

NoResult == [cmd |-> <<>>, exit_code |-> None, stdout |-> <<>>, stderr |-> <<>>]

\* How a call ended: kind is "returned" or the error raised, by the function
\* that raised it; attached: the error carries the ExecResult; timeout: the
\* timeout it carries; errno: the errno of an OSError ("" otherwise).
NoOutcome == [kind |-> "none", by |-> "", attached |-> FALSE, timeout |-> None,
              errno |-> ""]

\* ------------------------------------------------- regular expressions
\* A text is a sequence of one-character strings; positions are 0-based as
\* in Python.  The redaction marker is one element of a masked text.
MASKED == "<*masked*>"
Whitespace == {" ", "\t", "\n"}

\* Pattern nodes
Lit(c) == [t |-> "lit", c |-> c]
NonSpace == [t |-> "nonspace"]
Cat(ps) == [t |-> "cat", ps |-> ps]
Grp(n, p) == [t |-> "grp", n |-> n, p |-> p]
Opt(p) == [t |-> "opt", p |-> p]
Plus(p) == [t |-> "plus", p |-> p]

\* The patterns used as masking rules, by their source text.
Compile(re) ==
    CASE re = "p=(\\S+)" ->
            [groups |-> 1,
             p |-> Cat(<<Lit("p"), Lit("="), Grp(1, Plus(NonSpace))>>)]
      [] re = "p=\\S+" ->
            [groups |-> 0,
             p |-> Cat(<<Lit("p"), Lit("="), Plus(NonSpace)>>)]
      [] re = "(k)" ->
            [groups |-> 1, p |-> Grp(1, Lit("k"))]
      [] re = "((p)=)" ->
            [groups |-> 2,
             p |-> Grp(1, Cat(<<Grp(2, Lit("p")), Lit("=")>>))]
      [] re = "p(=)?(k)" ->
            [groups |-> 2,
             p |-> Cat(<<Lit("p"), Opt(Grp(1, Lit("="))), Grp(2, Lit("k"))>>)]
      [] re = "k?" ->
            [groups |-> 0, p |-> Opt(Lit("k"))]

NoSpan == <<0 - 1, 0 - 1>>

NoMatch == [ok |-> FALSE, end |-> 0, g |-> <<>>]

\* One step of the backtracking matcher.  A configuration st is [ks, pos, g]:
\* the patterns still to match one after another, the position, the group
\* spans so far.  The step gives the next configuration, and for a choice
\* the configuration to fall back to.
MatchStep(st, text) ==
    LET k == Head(st.ks)
        rest == Tail(st.ks)
        pos == st.pos
        go(ks, p, g) == [fail |-> FALSE, st |-> [ks |-> ks, pos |-> p, g |-> g],
                         alt |-> <<>>]
        choose(ks, alt) == [fail |-> FALSE,
                            st |-> [ks |-> ks, pos |-> pos, g |-> st.g],
                            alt |-> <<[ks |-> alt, pos |-> pos, g |-> st.g]>>]
        failed == [fail |-> TRUE, st |-> st, alt |-> <<>>]
        more(p) == [t |-> "more", p |-> p, from |-> pos]
    IN  CASE k.t = "lit" ->
                IF pos < Len(text) /\ text[pos + 1] = k.c
                THEN go(rest, pos + 1, st.g) ELSE failed
          [] k.t = "nonspace" ->
                IF pos < Len(text) /\ text[pos + 1] \notin Whitespace
                THEN go(rest, pos + 1, st.g) ELSE failed
          [] k.t = "cat" -> go(k.ps \o rest, pos, st.g)
          [] k.t = "grp" ->
                go(<<k.p, [t |-> "close", n |-> k.n, from |-> pos]>> \o rest,
                   pos, st.g)
          [] k.t = "close" ->
                go(rest, pos, [st.g EXCEPT ![k.n] = <<k.from, pos>>])
          [] k.t = "opt" -> choose(<<k.p>> \o rest, rest)
          [] k.t = "plus" -> go(<<k.p, more(k.p)>> \o rest, pos, st.g)
          [] k.t = "more" ->
                IF pos > k.from THEN choose(<<k.p, more(k.p)>> \o rest, rest)
                ELSE go(rest, pos, st.g)

\* the configurations to fall back to after the step from st
StepAlts(st, alts, text) == MatchStep(st, text).alt \o alts

\* the step from st fails and nothing is left to fall back to
Stuck(st, alts, text) == MatchStep(st, text).fail /\ StepAlts(st, alts, text) = <<>>

\* the configuration the matcher goes on with, and what it can fall back to
StepTo(st, alts, text) ==
    IF MatchStep(st, text).fail THEN Head(StepAlts(st, alts, text))
    ELSE MatchStep(st, text).st

StepRest(st, alts, text) ==
    IF MatchStep(st, text).fail THEN Tail(StepAlts(st, alts, text))
    ELSE StepAlts(st, alts, text)

RECURSIVE MatchRun(_, _, _)
\* The first match in the engine's order of preference (greedy, leftmost
\* alternative first), as [ok, end, g]; alts are the configurations to fall
\* back to, most recent first.
MatchRun(st, alts, text) ==
    IF st.ks = <<>> THEN [ok |-> TRUE, end |-> st.pos, g |-> st.g]
    ELSE IF Stuck(st, alts, text) THEN NoMatch
    ELSE MatchRun(StepTo(st, alts, text), StepRest(st, alts, text), text)

\* pattern.match(text, pos)
MatchAt(c, text, pos) ==
    MatchRun([ks |-> <<c.p>>, pos |-> pos, g |-> [n \in 1..c.groups |-> NoSpan]],
             <<>>, text)

\* the match found at pos, if any, as a list of at most one [start, end, g]
FoundAt(rules, text, pos) ==
    LET m == MatchAt(Compile(rules), text, pos)
    IN  IF m.ok THEN <<[start |-> pos, end |-> m.end, g |-> m.g]>> ELSE <<>>

\* where the scan goes on after pos: behind the match, else one further
ScanFrom(rules, text, pos) ==
    LET m == MatchAt(Compile(rules), text, pos)
    IN  IF m.ok /\ m.end > pos THEN m.end ELSE pos + 1

RECURSIVE finditer(_, _, _)
\* re.finditer(rules, text) from position pos on: the non-overlapping
\* matches left to right.
finditer(rules, text, pos) ==
    IF pos > Len(text) THEN <<>>
    ELSE FoundAt(rules, text, pos) \o finditer(rules, text, ScanFrom(rules, text, pos))

\* Python's text[start:end], negative indexes counting from the end
Slice(text, start, end) ==
    LET n == Len(text)
        norm(i) == IF i < 0 THEN (IF i + n < 0 THEN 0 ELSE i + n)
                   ELSE (IF i > n THEN n ELSE i)
        a == norm(start)
        b == norm(end)
    IN  IF a >= b THEN <<>> ELSE SubSeq(text, a + 1, b)

RECURSIVE rstrip(_)
rstrip(cmd) ==
    IF cmd # <<>> /\ cmd[Len(cmd)] \in Whitespace
    THEN rstrip(SubSeq(cmd, 1, Len(cmd) - 1)) ELSE cmd

RECURSIVE GroupSpansAndWhole(_, _, _)
\* GroupSpans with the span of the whole match put before the groups'
GroupSpansAndWhole(m, idx, groups) ==
    (IF idx = 1 THEN <<m.start, m.end>> ELSE <<>>)
    \o (IF idx > groups THEN <<>>
        ELSE m.g[idx] \o GroupSpansAndWhole(m, idx + 1, groups))

RECURSIVE GroupSpans(_, _, _)
\* "for idx, _ in enumerate(match.groups()): indexes.extend(match.span(idx + 1))"
GroupSpans(m, idx, groups) ==
    IF idx > groups THEN <<>>
    ELSE m.g[idx] \o GroupSpans(m, idx + 1, groups)

RECURSIVE MatchIndexes(_, _, _)
\* "for match in re.finditer(rules, text): ..."
MatchIndexes(ms, k, groups) ==
    IF k > Len(ms) THEN <<>>
    ELSE GroupSpans(ms[k], 1, groups) \o MatchIndexes(ms, k + 1, groups)

RECURSIVE Inserts(_, _, _)
\* "for idx in range(0, len(indexes) - 2, 2): masked += text[s:e] + MASKED"
\* (idx is the 0-based list index)
Inserts(text, indexes, idx) ==
    IF idx >= Len(indexes) - 2 THEN <<>>
    ELSE Slice(text, indexes[idx + 1], indexes[idx + 2]) \o <<MASKED>>
         \o Inserts(text, indexes, idx + 2)

mask(text, rules) ==
    LET ms == finditer(rules, text, 0)
        indexes == <<0>> \o MatchIndexes(ms, 1, Compile(rules).groups)
                   \o <<Len(text)>>
        n == Len(indexes)
    IN  Inserts(text, indexes, 0) \o Slice(text, indexes[n - 1], indexes[n])

\* Truth value of an Optional[str] rule: None and "" are false
Truthy(re) == re # None /\ re[1] # ""

\* self_re is self.log_mask_re, call_re the log_mask_re argument
_mask_command(self_re, cmd, call_re) ==
    LET c0 == rstrip(cmd)
        c1 == IF Truthy(self_re) THEN mask(c0, self_re[1]) ELSE c0
    IN  IF Truthy(call_re) THEN mask(c1, call_re[1]) ELSE c1

\* ------------------------------------------------------------- inputs
\* The calls of execute() the threads make (command, verbose, timeout and
\* the keyword arguments passed through to execute_async/_exec_command).
Requests ==
    { [command |-> <<"l", "s">>, verbose |-> FALSE, timeout |-> None,
       stdin |-> Some("hello"), log_mask_re |-> None,
       open_stdout |-> TRUE, open_stderr |-> FALSE],
      [command |-> <<"p", "=", "k", " ">>, verbose |-> TRUE,
       timeout |-> Some(5), stdin |-> None, log_mask_re |-> Some("(k)"),
       open_stdout |-> TRUE, open_stderr |-> TRUE] }

\* the exit code the command ends with when left alone
ExitCodeOf(command) ==
    IF command = <<"l", "s">> \/ rstrip(command) = <<>> THEN 0 ELSE 1

\* calls of execute() with an empty and with a whitespace-only command
BlankRequests ==
    { [command |-> <<>>, verbose |-> FALSE, timeout |-> None,
       stdin |-> Some("hello"), log_mask_re |-> None,
       open_stdout |-> TRUE, open_stderr |-> FALSE],
      [command |-> <<" ">>, verbose |-> TRUE,
       timeout |-> Some(5), stdin |-> None, log_mask_re |-> Some("(k)"),
       open_stdout |-> TRUE, open_stderr |-> TRUE] }

\* the instance's masking rule, given to the constructor
InstanceRules == {None, Some("p=(\\S+)")}

\* no call of _mask_command on its own
NoMasking == [cmd |-> <<>>, log_mask_re |-> None, out |-> None]

\* ------------------------------------------------------ threading.RLock
\* RLock.acquire() never blocks
AcquireUnguarded(t) == TRUE

\* a plain Lock: acquire() blocks whenever the lock is held, also by t
LockFree(t) == lockOwner = None

\* RLock.acquire() by thread t does not block
RLockFree(t) == lockOwner = None \/ lockOwner = Some(t)

RLockAcquire(t) ==
    /\ RLockFree(t)
    /\ lockOwner' = Some(t)
    /\ lockCount' = lockCount + 1

RLockRelease(t) ==
    /\ lockOwner = Some(t)
    /\ lockCount' = lockCount - 1
    /\ lockOwner' = IF lockCount = 1 THEN None ELSE lockOwner

\* recursion level at which thread t holds the lock
Held(t) == IF lockOwner = Some(t) THEN lockCount ELSE 0

\* --------------------------------------------------------------- Init
Init ==
    /\ self_log_mask_re \in InstanceRules
    /\ lockOwner = None
    /\ lockCount = 0
    /\ pc = [t \in Threads |-> "idle"]
    /\ ctxDepth = [t \in Threads |-> 0]
    /\ calls = 0
    /\ req = [t \in Threads |-> NoRequest]
    /\ proc = [t \in Threads |-> NoProc]
    /\ written = [t \in Threads |-> [s \in Streams |-> 0]]
    /\ pipe = [t \in Threads |-> [s \in Streams |-> <<>>]]
    /\ fut = [t \in Threads |-> [s \in Streams |-> "none"]]
    /\ result = [t \in Threads |-> NoResult]
    /\ exit_code = [t \in Threads |-> None]
    /\ expired = [t \in Threads |-> FALSE]
    /\ killMark = [t \in Threads |-> None]
    /\ outcome = [t \in Threads |-> NoOutcome]
    /\ log = [t \in Threads |-> <<>>]
    /\ masking = NoMasking

\* ------------------------------------------------- ExecHelper (api.py)
\* __enter__: self.lock.acquire()
Enter(t) ==
    /\ pc[t] = "idle"
    /\ ctxDepth[t] < MaxDepth
    /\ RLockAcquire(t)
    /\ ctxDepth' = [ctxDepth EXCEPT ![t] = @ + 1]
    /\ UNCHANGED <<self_log_mask_re, pc, calls, req, proc, written, pipe, fut,
                   result, exit_code, expired, killMark, outcome, log, masking>>

\* __exit__: self.lock.release()
Exit(t) ==
    /\ pc[t] = "idle"
    /\ ctxDepth[t] > 0
    /\ RLockRelease(t)
    /\ ctxDepth' = [ctxDepth EXCEPT ![t] = @ - 1]
    /\ UNCHANGED <<self_log_mask_re, pc, calls, req, proc, written, pipe, fut,
                   result, exit_code, expired, killMark, outcome, log, masking>>

\* a thread calls execute(command, verbose, timeout, **kwargs); what its
\* previous call left behind is no longer followed
Call(t, r) ==
    /\ pc[t] = "idle"
    /\ calls < MaxCalls
    /\ calls' = calls + 1
    /\ req' = [req EXCEPT ![t] = r]
    /\ pc' = [pc EXCEPT ![t] = "lock"]
    /\ outcome' = [outcome EXCEPT ![t] = NoOutcome]
    /\ log' = [log EXCEPT ![t] = <<>>]
    /\ proc' = [proc EXCEPT ![t] = NoProc]
    /\ written' = [written EXCEPT ![t] = [s \in Streams |-> 0]]
    /\ pipe' = [pipe EXCEPT ![t] = [s \in Streams |-> <<>>]]
    /\ fut' = [fut EXCEPT ![t] = [s \in Streams |-> "none"]]
    /\ result' = [result EXCEPT ![t] = NoResult]
    /\ exit_code' = [exit_code EXCEPT ![t] = None]
    /\ expired' = [expired EXCEPT ![t] = FALSE]
    /\ killMark' = [killMark EXCEPT ![t] = None]
    /\ UNCHANGED <<self_log_mask_re, lockOwner, lockCount, ctxDepth, masking>>

\* execute: "with self.lock:" entered
ExecuteLock(t) ==
    /\ pc[t] = "lock"
    /\ RLockAcquire(t)
    /\ pc' = [pc EXCEPT ![t] = "async"]
    /\ UNCHANGED <<self_log_mask_re, ctxDepth, calls, req, proc, written, pipe,
                   fut, result, exit_code, expired, killMark, outcome, log,
                   masking>>

\* ------------------------------------- Subprocess (subprocess_runner.py)
LogRecord(level, msg, cmd, code) ==
    [level |-> level, msg |-> msg, cmd |-> cmd, exit_code |-> code]

VerboseLevel(verbose) == IF verbose THEN INFO ELSE DEBUG

\* a stdin payload larger than the buffer of the process's input pipe
LargePayload == "large"

\* process.stdin.write(stdin) returns without waiting for the process: the
\* payload fits in the buffer of the pipe
FitsPipe(stdin) == stdin # Some(LargePayload)

\* the tolerated errno values without the broken-pipe ones
ToleratedClosedOnly == {EINVAL}

\* errno values execute_async tolerates on stdin.write / stdin.close
Tolerated == {EINVAL, EPIPE, ESHUTDOWN}

\* Popen given the text prepared for the log instead of the command
PopenMasked(command) ==
    [state |-> "running", returncode |-> None,
     args |-> _mask_command(self_log_mask_re, command, None), kills |-> 0,
     stdin_data |-> None, stdin_closed |-> FALSE]

\* Popen with no input pipe left open: stdin is given as DEVNULL
PopenStdinClosed(command) ==
    [state |-> "running", returncode |-> None, args |-> command, kills |-> 0,
     stdin_data |-> None, stdin_closed |-> TRUE]

\* the process subprocess.Popen(args=[command], ..., shell=True) starts
Popen(command) ==
    [state |-> "running", returncode |-> None, args |-> command, kills |-> 0,
     stdin_data |-> None, stdin_closed |-> FALSE]

\* Popen.kill() left out: the process is not signalled
NotKilled(p) == p

\* Popen.kill(): the signal is sent
Killed(p) == [p EXCEPT !.kills = @ + 1]

\* An execution is followed from its call until another thread launches the
\* instance's next process: what an ended call left running shares nothing
\* with later executions.  Thread u's execution is still followed while u
\* is inside execute().
Tracked(u) == pc[u] \notin {"idle", "lock"}

\* execute_async.  spawn: Popen succeeds; werr, cerr: the errno of
\* stdin.write and of stdin.close ("ok": no error).  A write that returns
\* at once without error is one of a payload that fits in the pipe.
ExecuteAsync(t, spawn, werr, cerr) ==
    LET r == req[t]
        cmd_for_log == _mask_command(self_log_mask_re, r.command, r.log_mask_re)
        started == LogRecord(VerboseLevel(r.verbose), "CMD_EXEC", cmd_for_log, None)
        process == Popen(r.command)
        warn(msg) == LogRecord(WARNING, msg, <<>>, None)
        raised(errno) == [kind |-> "OSError", by |-> "execute_async",
                          attached |-> FALSE, timeout |-> None,
                          errno |-> errno]
    IN
    /\ pc[t] = "async"
    /\ spawn /\ r.stdin # None /\ werr = "ok" => FitsPipe(r.stdin)
    /\ r.stdin = None => werr = "ok" /\ cerr = "ok"
    /\ werr \notin Tolerated \cup {"ok"} => cerr = "ok"
    /\ ~spawn => werr = "ok" /\ cerr = "ok"
    /\ LET \* the process, the warnings logged and how the launch ends
           launch ==
             IF ~spawn
             THEN \* Popen raises: nothing was started
                  [proc |-> NoProc, warns |-> <<>>, raises |-> TRUE, errno |-> ENOENT]
             ELSE IF r.stdin = None
             THEN [proc |-> process, warns |-> <<>>, raises |-> FALSE,
                   errno |-> ""]
             ELSE IF werr \notin Tolerated \cup {"ok"}
             THEN \* stdin.write failed: process.kill(); raise
                  [proc |-> Killed(process), warns |-> <<>>, raises |-> TRUE,
                   errno |-> werr]
             ELSE LET wrote == IF werr = "ok"
                               THEN [process EXCEPT !.stdin_data = r.stdin]
                               ELSE process
                      wlog == IF werr = "ok" THEN <<>>
                              ELSE IF werr = EINVAL
                              THEN <<warn("STDIN Send failed: closed PIPE")>>
                              ELSE <<warn("STDIN Send failed: broken PIPE")>>
                      closed == [wrote EXCEPT !.stdin_closed = TRUE]
                  IN  IF cerr \in Tolerated \cup {"ok"}
                      THEN [proc |-> closed, warns |-> wlog, raises |-> FALSE,
                            errno |-> ""]
                      ELSE \* stdin.close failed: process.kill(); raise
                           [proc |-> Killed(closed), warns |-> wlog,
                            raises |-> TRUE, errno |-> cerr]
           keep(u) == u = t \/ Tracked(u)
       IN  /\ proc' = [u \in Threads |->
                         IF u = t THEN launch.proc
                         ELSE IF keep(u) THEN proc[u] ELSE NoProc]
           /\ log' = [u \in Threads |->
                        IF u = t THEN Append(log[t], started) \o launch.warns
                        ELSE IF keep(u) THEN log[u] ELSE <<>>]
           /\ outcome' = [u \in Threads |->
                            IF u = t
                            THEN (IF launch.raises THEN raised(launch.errno)
                                  ELSE outcome[t])
                            ELSE IF keep(u) THEN outcome[u] ELSE NoOutcome]
           /\ pc' = [pc EXCEPT ![t] = IF launch.raises THEN "unwind" ELSE "start"]
           /\ written' = [u \in Threads |->
                            IF u # t /\ keep(u) THEN written[u]
                            ELSE [s \in Streams |-> 0]]
           /\ pipe' = [u \in Threads |->
                         IF u # t /\ keep(u) THEN pipe[u]
                         ELSE [s \in Streams |-> <<>>]]
           /\ fut' = [u \in Threads |->
                        IF u # t /\ keep(u) THEN fut[u]
                        ELSE [s \in Streams |-> "none"]]
           /\ killMark' = [u \in Threads |->
                             IF u # t /\ keep(u) THEN killMark[u] ELSE None]
           /\ expired' = [u \in Threads |->
                            IF u # t /\ keep(u) THEN expired[u] ELSE FALSE]
           /\ result' = [u \in Threads |-> IF keep(u) THEN result[u] ELSE NoResult]
           /\ exit_code' = [u \in Threads |-> IF keep(u) THEN exit_code[u] ELSE None]
           /\ req' = [u \in Threads |->
                        IF keep(u) \/ pc[u] = "lock" THEN req[u] ELSE NoRequest]
    /\ UNCHANGED <<self_log_mask_re, lockOwner, lockCount, ctxDepth, calls,
                   masking>>

\* execute_async up to process.stdin.write(stdin) with a payload that does
\* not fit in the pipe: the process is started and the write blocks
ExecuteAsyncBlocks(t) ==
    LET r == req[t]
        cmd_for_log == _mask_command(self_log_mask_re, r.command, r.log_mask_re)
        started == LogRecord(VerboseLevel(r.verbose), "CMD_EXEC", cmd_for_log, None)
        keep(u) == u = t \/ Tracked(u)
    IN
    /\ pc[t] = "async"
    /\ r.stdin # None /\ ~FitsPipe(r.stdin)
    /\ proc' = [u \in Threads |->
                  IF u = t THEN Popen(r.command)
                  ELSE IF keep(u) THEN proc[u] ELSE NoProc]
    /\ log' = [u \in Threads |->
                 IF u = t THEN Append(log[t], started)
                 ELSE IF keep(u) THEN log[u] ELSE <<>>]
    /\ outcome' = [u \in Threads |-> IF keep(u) THEN outcome[u] ELSE NoOutcome]
    /\ pc' = [pc EXCEPT ![t] = "write"]
    /\ written' = [u \in Threads |->
                     IF u # t /\ keep(u) THEN written[u]
                     ELSE [s \in Streams |-> 0]]
    /\ pipe' = [u \in Threads |->
                  IF u # t /\ keep(u) THEN pipe[u]
                  ELSE [s \in Streams |-> <<>>]]
    /\ fut' = [u \in Threads |->
                 IF u # t /\ keep(u) THEN fut[u]
                 ELSE [s \in Streams |-> "none"]]
    /\ killMark' = [u \in Threads |->
                      IF u # t /\ keep(u) THEN killMark[u] ELSE None]
    /\ expired' = [u \in Threads |->
                     IF u # t /\ keep(u) THEN expired[u] ELSE FALSE]
    /\ result' = [u \in Threads |-> IF keep(u) THEN result[u] ELSE NoResult]
    /\ exit_code' = [u \in Threads |-> IF keep(u) THEN exit_code[u] ELSE None]
    /\ req' = [u \in Threads |->
                 IF keep(u) \/ pc[u] = "lock" THEN req[u] ELSE NoRequest]
    /\ UNCHANGED <<self_log_mask_re, lockOwner, lockCount, ctxDepth, calls,
                   masking>>

\* the blocked process.stdin.write(stdin) ends: it returns once the process
\* has read the payload, and raises BrokenPipeError (EPIPE) once the process
\* has ended without reading it; then stdin.close(), cerr its errno
ExecuteAsyncResume(t, cerr) ==
    LET wrote == proc[t].stdin_data # None
        wlog == IF wrote THEN <<>>
                ELSE <<LogRecord(WARNING, "STDIN Send failed: broken PIPE",
                                 <<>>, None)>>
        closed == [proc[t] EXCEPT !.stdin_closed = TRUE]
    IN
    /\ pc[t] = "write"
    /\ wrote \/ proc[t].state = "exited"
    /\ log' = [log EXCEPT ![t] = @ \o wlog]
    /\ IF cerr \in Tolerated \cup {"ok"}
       THEN /\ proc' = [proc EXCEPT ![t] = closed]
            /\ pc' = [pc EXCEPT ![t] = "start"]
            /\ UNCHANGED outcome
       ELSE \* stdin.close failed: process.kill(); raise
            /\ proc' = [proc EXCEPT ![t] = Killed(closed)]
            /\ outcome' = [outcome EXCEPT ![t] =
                             [kind |-> "OSError", by |-> "execute_async",
                              attached |-> FALSE, timeout |-> None,
                              errno |-> cerr]]
            /\ pc' = [pc EXCEPT ![t] = "unwind"]
    /\ UNCHANGED <<self_log_mask_re, lockOwner, lockCount, ctxDepth, calls,
                   req, written, pipe, fut, result, exit_code, expired,
                   killMark, masking>>

\* _exec_command up to the wait: the result is created and the two
\* drainers are submitted to the thread pool
StartDrainers(t) ==
    LET r == req[t]
        cmd_for_log == _mask_command(self_log_mask_re, r.command, r.log_mask_re)
    IN
    /\ pc[t] = "start"
    /\ result' = [result EXCEPT ![t] = [NoResult EXCEPT !.cmd = cmd_for_log]]
    /\ fut' = [fut EXCEPT ![t] = [s \in Streams |-> "pending"]]
    /\ exit_code' = [exit_code EXCEPT ![t] = None]
    /\ pc' = [pc EXCEPT ![t] = "wait"]
    /\ UNCHANGED <<self_log_mask_re, lockOwner, lockCount, ctxDepth, calls,
                   req, proc, written, pipe, expired, killMark, outcome, log,
                   masking>>

\* Popen.poll(): the return code of an ended process, else None
PollCode(p) == IF p.state = "exited" THEN p.returncode ELSE None

\* exit_code = interface.wait(timeout=timeout) returns
WaitReturn(t) ==
    /\ pc[t] = "wait"
    /\ proc[t].state = "exited"
    /\ exit_code' = [exit_code EXCEPT ![t] = proc[t].returncode]
    /\ pc' = [pc EXCEPT ![t] = "join1"]
    /\ UNCHANGED <<self_log_mask_re, lockOwner, lockCount, ctxDepth, calls,
                   req, proc, written, pipe, fut, result, expired, killMark,
                   outcome, log, masking>>

\* WaitTimeout with an absent timeout taken for an elapsed one
WaitTimeoutAlsoForNone(t) ==
    /\ pc[t] = "wait"
    /\ proc[t].state = "running"
    /\ expired' = [expired EXCEPT ![t] = TRUE]
    /\ pc' = [pc EXCEPT ![t] = "poll"]
    /\ UNCHANGED <<self_log_mask_re, lockOwner, lockCount, ctxDepth, calls,
                   req, proc, written, pipe, fut, result, exit_code, killMark,
                   outcome, log, masking>>

\* interface.wait(timeout=timeout) raises subprocess.TimeoutExpired: the
\* process was still running when the wait last looked
WaitTimeout(t) ==
    /\ pc[t] = "wait"
    /\ req[t].timeout # None
    /\ proc[t].state = "running"
    /\ expired' = [expired EXCEPT ![t] = TRUE]
    /\ pc' = [pc EXCEPT ![t] = "poll"]
    /\ UNCHANGED <<self_log_mask_re, lockOwner, lockCount, ctxDepth, calls,
                   req, proc, written, pipe, fut, result, exit_code, killMark,
                   outcome, log, masking>>

\* except subprocess.TimeoutExpired: exit_code = interface.poll()
Poll(t) ==
    /\ pc[t] = "poll"
    /\ exit_code' = [exit_code EXCEPT ![t] = PollCode(proc[t])]
    /\ pc' = [pc EXCEPT ![t] = "join1"]
    /\ UNCHANGED <<self_log_mask_re, lockOwner, lockCount, ctxDepth, calls,
                   req, proc, written, pipe, fut, result, expired, killMark,
                   outcome, log, masking>>

\* a future is done: it ran to its end or was cancelled
Done(f) == f \in {"finished", "cancelled"}

\* concurrent.futures.wait([stdout_future, stderr_future], timeout=...)
\* returns: both futures are done, or the timeout elapsed
FuturesWaitReturns(t) == TRUE

\* Join1 without the use of the re-checked exit code: a wait that gave up
\* always goes on to the kill
Join1NoRecheck(t) ==
    /\ pc[t] = "join1"
    /\ IF exit_code[t] # None /\ ~expired[t]
       THEN /\ result' = [result EXCEPT ![t].exit_code = exit_code[t]]
            /\ pc' = [pc EXCEPT ![t] = "summary"]
       ELSE /\ pc' = [pc EXCEPT ![t] = "kill"]
            /\ UNCHANGED result
    /\ UNCHANGED <<self_log_mask_re, lockOwner, lockCount, ctxDepth, calls,
                   req, proc, written, pipe, fut, exit_code, expired, killMark,
                   outcome, log, masking>>

\* futures.wait(timeout=1) returns; "if exit_code is not None:
\* result.exit_code = exit_code; return result"
Join1(t) ==
    /\ pc[t] = "join1"
    /\ FuturesWaitReturns(t)
    /\ IF exit_code[t] # None
       THEN /\ result' = [result EXCEPT ![t].exit_code = exit_code[t]]
            /\ pc' = [pc EXCEPT ![t] = "summary"]
       ELSE /\ pc' = [pc EXCEPT ![t] = "kill"]
            /\ UNCHANGED result
    /\ UNCHANGED <<self_log_mask_re, lockOwner, lockCount, ctxDepth, calls,
                   req, proc, written, pipe, fut, exit_code, expired, killMark,
                   outcome, log, masking>>

\* interface.kill(): ok, or it raises OSError
Kill(t, ok) ==
    /\ pc[t] = "kill"
    /\ killMark' = [killMark EXCEPT ![t] = Some(written[t])]
    /\ IF ok
       THEN /\ proc' = [proc EXCEPT ![t] = Killed(@)]
            /\ pc' = [pc EXCEPT ![t] = "join5"]
       ELSE /\ pc' = [pc EXCEPT ![t] = "oserr"]
            /\ UNCHANGED proc
    /\ UNCHANGED <<self_log_mask_re, lockOwner, lockCount, ctxDepth, calls,
                   req, written, pipe, fut, result, exit_code, expired,
                   outcome, log, masking>>

\* Future.cancel(): a future not yet running is cancelled, a running or
\* done one is left as it is
Cancel(f) == IF f = "pending" THEN "cancelled" ELSE f

\* Join5 with the process polled once more and the code found stored in the
\* result before the timeout error is raised
Join5StoresExitCode(t) ==
    /\ pc[t] = "join5"
    /\ fut' = [fut EXCEPT ![t] = [s \in Streams |-> Cancel(fut[t][s])]]
    /\ result' = [result EXCEPT ![t].exit_code = PollCode(proc[t])]
    /\ log' = [log EXCEPT ![t] =
                 Append(@, LogRecord(DEBUG, "CMD_WAIT_ERROR", result[t].cmd,
                                     PollCode(proc[t])))]
    /\ outcome' = [outcome EXCEPT ![t] =
                     [kind |-> "ExecHelperTimeoutError", by |-> "_exec_command",
                      attached |-> TRUE, timeout |-> req[t].timeout,
                      errno |-> ""]]
    /\ pc' = [pc EXCEPT ![t] = "unwind"]
    /\ UNCHANGED <<self_log_mask_re, lockOwner, lockCount, ctxDepth, calls,
                   req, proc, written, pipe, exit_code, expired, killMark,
                   masking>>

\* futures.wait(timeout=5) returns; both futures are cancelled; the
\* CMD_WAIT_ERROR line is logged; ExecHelperTimeoutError(result, timeout)
Join5(t) ==
    /\ pc[t] = "join5"
    /\ FuturesWaitReturns(t)
    /\ fut' = [fut EXCEPT ![t] = [s \in Streams |-> Cancel(fut[t][s])]]
    /\ log' = [log EXCEPT ![t] =
                 Append(@, LogRecord(DEBUG, "CMD_WAIT_ERROR", result[t].cmd,
                                     result[t].exit_code))]
    /\ outcome' = [outcome EXCEPT ![t] =
                     [kind |-> "ExecHelperTimeoutError", by |-> "_exec_command",
                      attached |-> TRUE, timeout |-> req[t].timeout,
                      errno |-> ""]]
    /\ pc' = [pc EXCEPT ![t] = "unwind"]
    /\ UNCHANGED <<self_log_mask_re, lockOwner, lockCount, ctxDepth, calls,
                   req, proc, written, pipe, result, exit_code, expired,
                   killMark, masking>>

\* OsError without the second poll: the OSError of the kill is always
\* raised again
OsErrorAlwaysRaises(t) ==
    /\ pc[t] = "oserr"
    /\ outcome' = [outcome EXCEPT ![t] =
                     [kind |-> "OSError", by |-> "_exec_command",
                      attached |-> FALSE, timeout |-> None, errno |-> EPERM]]
    /\ pc' = [pc EXCEPT ![t] = "unwind"]
    /\ UNCHANGED <<self_log_mask_re, lockOwner, lockCount, ctxDepth, calls,
                   req, proc, written, pipe, fut, result, exit_code, expired,
                   killMark, log, masking>>

\* OsError without the final "raise": with no exit code the handler falls
\* through to the CMD_WAIT_ERROR line and the timeout error
OsErrorFallsThrough(t) ==
    LET code == PollCode(proc[t])
    IN
    /\ pc[t] = "oserr"
    /\ exit_code' = [exit_code EXCEPT ![t] = code]
    /\ IF code # None
       THEN /\ log' = [log EXCEPT ![t] =
                         Append(@, LogRecord(WARNING, "completed just after timeout",
                                             req[t].command, None))]
            /\ result' = [result EXCEPT ![t].exit_code = code]
            /\ pc' = [pc EXCEPT ![t] = "summary"]
            /\ UNCHANGED outcome
       ELSE /\ log' = [log EXCEPT ![t] =
                         Append(@, LogRecord(DEBUG, "CMD_WAIT_ERROR", result[t].cmd,
                                             result[t].exit_code))]
            /\ outcome' = [outcome EXCEPT ![t] =
                             [kind |-> "ExecHelperTimeoutError",
                              by |-> "_exec_command", attached |-> TRUE,
                              timeout |-> req[t].timeout, errno |-> ""]]
            /\ pc' = [pc EXCEPT ![t] = "unwind"]
            /\ UNCHANGED result
    /\ UNCHANGED <<self_log_mask_re, lockOwner, lockCount, ctxDepth, calls,
                   req, proc, written, pipe, fut, expired, killMark, masking>>

\* except OSError: exit_code = interface.poll(); a process that has ended
\* is reported with its exit code, else the OSError is raised again
OsError(t) ==
    LET code == PollCode(proc[t])
    IN
    /\ pc[t] = "oserr"
    /\ exit_code' = [exit_code EXCEPT ![t] = code]
    /\ IF code # None
       THEN /\ log' = [log EXCEPT ![t] =
                         Append(@, LogRecord(WARNING, "completed just after timeout",
                                             req[t].command, None))]
            /\ result' = [result EXCEPT ![t].exit_code = code]
            /\ pc' = [pc EXCEPT ![t] = "summary"]
            /\ UNCHANGED outcome
       ELSE /\ outcome' = [outcome EXCEPT ![t] =
                             [kind |-> "OSError", by |-> "_exec_command",
                              attached |-> FALSE, timeout |-> None,
                              errno |-> EPERM]]
            /\ pc' = [pc EXCEPT ![t] = "unwind"]
            /\ UNCHANGED <<log, result>>
    /\ UNCHANGED <<self_log_mask_re, lockOwner, lockCount, ctxDepth, calls,
                   req, proc, written, pipe, fut, expired, killMark, masking>>

\* execute: the summary line is logged and the result returned, leaving
\* "with self.lock:"
Summary(t) ==
    /\ pc[t] = "summary"
    /\ log' = [log EXCEPT ![t] =
                 Append(@, LogRecord(VerboseLevel(req[t].verbose), "exit code",
                                     result[t].cmd, result[t].exit_code))]
    /\ RLockRelease(t)
    /\ outcome' = [outcome EXCEPT ![t] =
                     [kind |-> "returned", by |-> "execute", attached |-> TRUE,
                      timeout |-> None, errno |-> ""]]
    /\ pc' = [pc EXCEPT ![t] = "idle"]
    /\ UNCHANGED <<self_log_mask_re, ctxDepth, calls, req, proc, written, pipe,
                   fut, result, exit_code, expired, killMark, masking>>

\* Unwind without the release: acquire()/release() around the body with no
\* try/finally
UnwindHolding(t) ==
    /\ pc[t] = "unwind"
    /\ pc' = [pc EXCEPT ![t] = "idle"]
    /\ UNCHANGED <<self_log_mask_re, lockOwner, lockCount, ctxDepth, calls,
                   req, proc, written, pipe, fut, result, exit_code, expired,
                   killMark, outcome, log, masking>>

\* execute: an error raised by execute_async or _exec_command leaves
\* "with self.lock:"
Unwind(t) ==
    /\ pc[t] = "unwind"
    /\ RLockRelease(t)
    /\ pc' = [pc EXCEPT ![t] = "idle"]
    /\ UNCHANGED <<self_log_mask_re, ctxDepth, calls, req, proc, written, pipe,
                   fut, result, exit_code, expired, killMark, outcome, log,
                   masking>>

\* ------------------------------------------------------ drainer futures
\* the stream's pipe was opened (else the source handed over is None)
IsOpen(t, s) == IF s = "stdout" THEN req[t].open_stdout ELSE req[t].open_stderr

\* a pool worker starts poll_stdout / poll_stderr
DrainerStart(t, s) ==
    /\ fut[t][s] = "pending"
    /\ fut' = [fut EXCEPT ![t][s] = "running"]
    /\ UNCHANGED <<self_log_mask_re, lockOwner, lockCount, pc, ctxDepth, calls,
                   req, proc, written, pipe, result, exit_code, expired,
                   killMark, outcome, log, masking>>

\* result.read_stdout / read_stderr: the next chunk is appended
DrainerRead(t, s) ==
    /\ fut[t][s] = "running"
    /\ IsOpen(t, s)
    /\ pipe[t][s] # <<>>
    /\ result' = [result EXCEPT ![t][s] = Append(@, Head(pipe[t][s]))]
    /\ pipe' = [pipe EXCEPT ![t][s] = Tail(@)]
    /\ UNCHANGED <<self_log_mask_re, lockOwner, lockCount, pc, ctxDepth, calls,
                   req, proc, written, fut, exit_code, expired, killMark,
                   outcome, log, masking>>

\* result.read_stdout / read_stderr returns: no source, or end of stream
DrainerEnd(t, s) ==
    /\ fut[t][s] = "running"
    /\ \/ ~IsOpen(t, s)
       \/ pipe[t][s] = <<>> /\ proc[t].state = "exited"
    /\ fut' = [fut EXCEPT ![t][s] = "finished"]
    /\ UNCHANGED <<self_log_mask_re, lockOwner, lockCount, pc, ctxDepth, calls,
                   req, proc, written, pipe, result, exit_code, expired,
                   killMark, outcome, log, masking>>

\* ---------------------------------------------------------- the process
\* the running process writes its next chunk to a stream
ProcWrite(t, s) ==
    /\ proc[t].state = "running"
    /\ written[t]["stdout"] + written[t]["stderr"] < MaxOut
    /\ written' = [written EXCEPT ![t][s] = @ + 1]
    /\ pipe' = IF IsOpen(t, s)
               THEN [pipe EXCEPT ![t][s] = Append(@, written[t][s] + 1)]
               ELSE pipe
    /\ UNCHANGED <<self_log_mask_re, lockOwner, lockCount, pc, ctxDepth, calls,
                   req, proc, fut, result, exit_code, expired, killMark,
                   outcome, log, masking>>

\* exit codes the process can end with now
EndCodes(p) ==
    {ExitCodeOf(p.args)} \cup (IF p.kills > 0 THEN {KilledCode} ELSE {})

\* the process ends
ProcExit(t, code) ==
    /\ proc[t].state = "running"
    /\ code \in EndCodes(proc[t])
    /\ proc' = [proc EXCEPT ![t].state = "exited", ![t].returncode = Some(code)]
    /\ UNCHANGED <<self_log_mask_re, lockOwner, lockCount, pc, ctxDepth, calls,
                   req, written, pipe, fut, result, exit_code, expired,
                   killMark, outcome, log, masking>>

\* the running process reads the payload its launcher is blocked writing
ProcReadStdin(t) ==
    /\ pc[t] = "write"
    /\ proc[t].state = "running"
    /\ proc[t].stdin_data = None
    /\ proc' = [proc EXCEPT ![t].stdin_data = req[t].stdin]
    /\ UNCHANGED <<self_log_mask_re, lockOwner, lockCount, pc, ctxDepth, calls,
                   req, written, pipe, fut, result, exit_code, expired,
                   killMark, outcome, log, masking>>

\* ------------------------------------------------------------ the system
Next ==
    \E t \in Threads :
        \/ Enter(t)
        \/ Exit(t)
        \/ \E r \in Requests : Call(t, r)
        \/ ExecuteLock(t)
        \/ \E spawn \in BOOLEAN, werr \in Errnos, cerr \in Errnos :
               ExecuteAsync(t, spawn, werr, cerr)
        \/ StartDrainers(t)
        \/ WaitReturn(t)
        \/ WaitTimeout(t)
        \/ Poll(t)
        \/ Join1(t)
        \/ \E ok \in BOOLEAN : Kill(t, ok)
        \/ Join5(t)
        \/ OsError(t)
        \/ Summary(t)
        \/ Unwind(t)
        \/ \E s \in Streams : DrainerStart(t, s) \/ DrainerRead(t, s) \/ DrainerEnd(t, s)
        \/ \E s \in Streams : ProcWrite(t, s)
        \/ \E code \in {0, 1, KilledCode} : ProcExit(t, code)

Spec == Init /\ [][Next]_vars

\* ------------------------------------------- execute() of blank commands
NextBlank ==
    \E t \in Threads :
        \/ Enter(t)
        \/ Exit(t)
        \/ \E r \in BlankRequests : Call(t, r)
        \/ ExecuteLock(t)
        \/ \E spawn \in BOOLEAN, werr \in Errnos, cerr \in Errnos :
               ExecuteAsync(t, spawn, werr, cerr)
        \/ StartDrainers(t)
        \/ WaitReturn(t)
        \/ WaitTimeout(t)
        \/ Poll(t)
        \/ Join1(t)
        \/ \E ok \in BOOLEAN : Kill(t, ok)
        \/ Join5(t)
        \/ OsError(t)
        \/ Summary(t)
        \/ Unwind(t)
        \/ \E s \in Streams : DrainerStart(t, s) \/ DrainerRead(t, s) \/ DrainerEnd(t, s)
        \/ \E s \in Streams : ProcWrite(t, s)
        \/ \E code \in {0, 1, KilledCode} : ProcExit(t, code)

SpecBlank == Init /\ [][NextBlank]_vars

\* ------------------------------- execute() with a timeout on every call
\* calls of execute() that all give a timeout: without payload, with a
\* payload that fits in the pipe and with one that does not; no masking
\* rule is given
FiniteRequests ==
    { [command |-> <<"l", "s">>, verbose |-> FALSE, timeout |-> Some(1),
       stdin |-> Some("hello"), log_mask_re |-> None,
       open_stdout |-> TRUE, open_stderr |-> FALSE],
      [command |-> <<"l", "s">>, verbose |-> FALSE, timeout |-> Some(1),
       stdin |-> Some(LargePayload), log_mask_re |-> None,
       open_stdout |-> TRUE, open_stderr |-> FALSE],
      [command |-> <<"p", "=", "k", " ">>, verbose |-> TRUE,
       timeout |-> Some(5), stdin |-> None, log_mask_re |-> None,
       open_stdout |-> TRUE, open_stderr |-> TRUE] }

\* an instance constructed without masking rule
InitFinite == Init /\ self_log_mask_re = None

\* the next step of thread t inside execute(): the steps of execute,
\* execute_async and _exec_command, which the thread takes whenever the
\* call it is in returns (a lock that is free, a write that is through, a
\* process that has ended or a timer that has run out)
CallerStep(t) ==
    \/ ExecuteLock(t)
    \/ \E spawn \in BOOLEAN, werr \in Errnos, cerr \in Errnos :
           ExecuteAsync(t, spawn, werr, cerr)
    \/ ExecuteAsyncBlocks(t)
    \/ \E cerr \in Errnos : ExecuteAsyncResume(t, cerr)
    \/ StartDrainers(t)
    \/ WaitReturn(t)
    \/ WaitTimeout(t)
    \/ Poll(t)
    \/ Join1(t)
    \/ \E ok \in BOOLEAN : Kill(t, ok)
    \/ Join5(t)
    \/ OsError(t)
    \/ Summary(t)
    \/ Unwind(t)

NextFinite ==
    \E t \in Threads :
        \/ Enter(t)
        \/ Exit(t)
        \/ \E r \in FiniteRequests : Call(t, r)
        \/ CallerStep(t)
        \/ \E s \in Streams : DrainerStart(t, s) \/ DrainerRead(t, s) \/ DrainerEnd(t, s)
        \/ \E s \in Streams : ProcWrite(t, s)
        \/ \E code \in {0, 1, KilledCode} : ProcExit(t, code)
        \/ ProcReadStdin(t)

\* A thread inside execute() is scheduled again and again, and the timers
\* of its bounded waits run out; nothing is assumed of the process and of
\* the pool workers that run the drainers.
SpecFinite ==
    InitFinite /\ [][NextFinite]_vars /\ \A t \in Threads : WF_vars(CallerStep(t))

\* ------------------------------------------- _mask_command on its own
\* the characters of the commands
MaskAlphabet == {"p", "=", "k", " "}

\* the commands: the texts of at most MaxLen characters
MaskTexts == UNION {[1..n -> MaskAlphabet] : n \in 0..MaxLen}

\* the masking rules of the instance and of the call: none, the empty
\* string, rules without group and rules with groups
MaskRules ==
    {None, Some(""), Some("p=\\S+"), Some("k?"), Some("p=(\\S+)"), Some("(k)"),
     Some("((p)=)"), Some("p(=)?(k)")}

\* an instance with any rule, about to mask any command with any rule
InitMask ==
    /\ self_log_mask_re \in MaskRules
    /\ masking \in [cmd : MaskTexts, log_mask_re : MaskRules, out : {None}]
    /\ lockOwner = None
    /\ lockCount = 0
    /\ pc = [t \in Threads |-> "idle"]
    /\ ctxDepth = [t \in Threads |-> 0]
    /\ calls = 0
    /\ req = [t \in Threads |-> NoRequest]
    /\ proc = [t \in Threads |-> NoProc]
    /\ written = [t \in Threads |-> [s \in Streams |-> 0]]
    /\ pipe = [t \in Threads |-> [s \in Streams |-> <<>>]]
    /\ fut = [t \in Threads |-> [s \in Streams |-> "none"]]
    /\ result = [t \in Threads |-> NoResult]
    /\ exit_code = [t \in Threads |-> None]
    /\ expired = [t \in Threads |-> FALSE]
    /\ killMark = [t \in Threads |-> None]
    /\ outcome = [t \in Threads |-> NoOutcome]
    /\ log = [t \in Threads |-> <<>>]

\* self._mask_command(cmd=cmd, log_mask_re=log_mask_re) returns
MaskCommand ==
    /\ masking.out = None
    /\ masking' = [masking EXCEPT
                     !.out = Some(_mask_command(self_log_mask_re, masking.cmd,
                                                masking.log_mask_re))]
    /\ UNCHANGED <<self_log_mask_re, lockOwner, lockCount, pc, ctxDepth, calls,
                   req, proc, written, pipe, fut, result, exit_code, expired,
                   killMark, outcome, log>>

NextMask == MaskCommand

SpecMask == InitMask /\ [][NextMask]_vars

\* ================================================================ claims
\* thread t is inside execute(), between the launch and the return or raise
InExecute(t) == pc[t] \notin {"idle", "lock"}

\* thread t's last call of execute() has ended, in one of the given ways
Ended(t, kinds) == pc[t] = "idle" /\ outcome[t].kind \in kinds

\* what the drainer of stream s can capture of what the process wrote
Captured(t, s) == IF IsOpen(t, s) THEN Chunks(written[t][s]) ELSE <<>>

\* a is a prefix of b
IsPrefix(a, b) == Len(a) <= Len(b) /\ a = SubSeq(b, 1, Len(a))

\* C1: when the process ended before the timeout elapsed (the wait returned
\* its exit code), the returned result has that exit code and holds, for
\* both streams, exactly what the process wrote.
C1_ExactOutputWhenExitedInTime ==
    \A t \in Threads :
        Ended(t, {"returned"}) /\ ~expired[t] =>
            /\ result[t].exit_code # None
            /\ result[t].exit_code = proc[t].returncode
            /\ \A s \in Streams : result[t][s] = Captured(t, s)

\* C2: when the timeout error is raised and the process, ignoring the kill,
\* is still running, the error carries the timeout and a result holding all
\* the process had written when the kill was issued.
C2_TimeoutErrorHoldsOutputBeforeKill ==
    \A t \in Threads :
        /\ outcome[t].kind = "ExecHelperTimeoutError"
        /\ proc[t].state = "running"
        => /\ outcome[t].attached
           /\ outcome[t].timeout = req[t].timeout
           /\ \A s \in Streams :
                 IsOpen(t, s) =>
                     /\ Len(result[t][s]) >= killMark[t][1][s]
                     /\ IsPrefix(result[t][s], Chunks(written[t][s]))

\* C3: when the wait gave up but the re-check found the process ended, the
\* call is on its way to return: no kill is attempted, no error is raised,
\* and the result returned has the exit code the re-check found.
C3_TieBreakIsSuccess ==
    \A t \in Threads :
        expired[t] /\ exit_code[t] # None /\ killMark[t] = None =>
            /\ pc[t] \in {"join1", "summary", "idle"}
            /\ proc[t].kills = 0
            /\ exit_code[t] = proc[t].returncode
            /\ outcome[t].kind \in {"none", "returned"}
            /\ pc[t] = "idle" => outcome[t].kind = "returned"
            /\ pc[t] \in {"summary", "idle"} => result[t].exit_code = exit_code[t]

\* a call returned by the tie-break
C3_Witness ==
    \E t \in Threads :
        /\ expired[t] /\ killMark[t] = None
        /\ Ended(t, {"returned"})
        /\ result[t].exit_code = proc[t].returncode
        /\ result[t].exit_code # None

\* C4: at most one thread is inside execute() between launch and return or
\* raise; no process of a second caller exists while the first is in flight.
C4_OneExecutionInFlight ==
    \A t, u \in Threads : InExecute(t) /\ InExecute(u) => t = u

\* one caller's process runs while another caller waits for the lock
C4_Witness ==
    \E t, u \in Threads :
        /\ t # u
        /\ InExecute(t) /\ proc[t].state = "running"
        /\ pc[u] = "lock"

\* C5: outside execute() a thread holds the lock exactly as often as it
\* entered the executor as a context manager, however its call ended;
\* inside execute() it holds it once more.
C5_LockReleasedOnEveryExit ==
    \A t \in Threads :
        /\ pc[t] \in {"idle", "lock"} => Held(t) = ctxDepth[t]
        /\ InExecute(t) => Held(t) = ctxDepth[t] + 1

\* a call ended by a failed kill, the lock free, another caller waiting
C5_Witness ==
    \E t, u \in Threads :
        /\ t # u
        /\ Ended(t, {"OSError"}) /\ outcome[t].by = "_exec_command"
        /\ lockOwner = None
        /\ pc[u] = "lock"

\* C6: the lock counts its owner's acquisitions; a thread calling execute()
\* gets the lock exactly when no other thread holds it, so the holder
\* itself is never blocked and every other thread is, until the count is
\* back to zero.
C6_LockIsReentrant ==
    /\ lockOwner = None <=> lockCount = 0
    /\ \A t \in Threads :
          /\ Held(t) = ctxDepth[t] + (IF InExecute(t) THEN 1 ELSE 0)
          /\ pc[t] = "lock" =>
                (ENABLED ExecuteLock(t) <=> \A u \in Threads \ {t} : Held(u) = 0)

\* a thread inside "with executor:" is inside execute(), another one waits
C6_Witness ==
    \E t, u \in Threads :
        /\ t # u
        /\ ctxDepth[t] = 1 /\ InExecute(t) /\ lockCount = 2
        /\ pc[u] = "lock"

\* the lines that report how a call ended
IsSummary(rec) == rec.msg \in {"exit code", "CMD_WAIT_ERROR"}

\* C7: a call that returned or raised the timeout error has logged exactly
\* one summary line; it has the masked command, the exit code of the result
\* (or none), and the level INFO if verbose else DEBUG.
C7_OneSummaryLineAtVerboseLevel ==
    \A t \in Threads :
        Ended(t, {"returned", "ExecHelperTimeoutError"}) =>
            LET lines == SelectSeq(log[t], IsSummary)
            IN  /\ Len(lines) = 1
                /\ lines[1].level = VerboseLevel(req[t].verbose)
                /\ lines[1].cmd = result[t].cmd
                /\ lines[1].exit_code = result[t].exit_code

\* C8: every error _exec_command raises carries the ExecResult.
C8_ResultAttachedToEveryError ==
    \A t \in Threads :
        /\ outcome[t].by = "_exec_command"
        /\ outcome[t].kind \in {"ExecHelperTimeoutError", "OSError"}
        => outcome[t].attached

\* C9: when a result with an exit code is returned without the wait having
\* given up, both drainers are done.
C9_ReturnedOnlyAfterDrainersDone ==
    \A t \in Threads :
        Ended(t, {"returned"}) /\ ~expired[t] /\ result[t].exit_code # None =>
            \A s \in Streams : Done(fut[t][s])

\* C10: once the timeout error is raised, the result it carries does not
\* change any more.
C10_ResultFrozenAfterTimeoutError ==
    [][\A t \in Threads :
          outcome[t].kind = "ExecHelperTimeoutError" /\ outcome'[t] = outcome[t]
          => result'[t] = result[t]]_vars

\* a warning about the stdin payload is in thread t's log
HasStdinWarning(t) ==
    \E i \in 1..Len(log[t]) :
        /\ log[t][i].level = WARNING
        /\ log[t][i].msg \in {"STDIN Send failed: closed PIPE",
                              "STDIN Send failed: broken PIPE"}

\* C11: no launch ends with an OSError whose errno is EINVAL, EPIPE or
\* ESHUTDOWN: such a failure of stdin.write is logged as a warning, no kill
\* is sent for it and the process is handed on to the wait; a call that
\* logged the warning and returns has the exit code of its process in the
\* result.
C11_BrokenPipeOnWriteIsNotFatal ==
    \A t \in Threads :
        /\ outcome[t].by = "execute_async" =>
              outcome[t].errno \notin {EINVAL, EPIPE, ESHUTDOWN}
        /\ HasStdinWarning(t) /\ outcome[t].by # "execute_async" =>
              /\ pc[t] # "unwind" => proc[t].state # "none"
              /\ killMark[t] = None => proc[t].kills = 0
              /\ pc[t] = "join1" /\ ~expired[t] =>
                    exit_code[t] # None /\ exit_code[t] = proc[t].returncode
              /\ Ended(t, {"returned"}) =>
                    /\ result[t].exit_code # None
                    /\ result[t].exit_code = proc[t].returncode

\* a call whose stdin.write failed with a broken pipe returned the exit
\* code of its process
C11_Witness ==
    \E t \in Threads :
        /\ HasStdinWarning(t)
        /\ Ended(t, {"returned"})
        /\ proc[t].stdin_data = None
        /\ result[t].exit_code = proc[t].returncode
        /\ result[t].exit_code # None

C13_KillFailureIsPropagated ==
    /\ [][\A t \in Threads :
            pc[t] = "oserr" /\ pc'[t] # "oserr" /\ proc[t].state = "running" =>
                /\ pc'[t] = "unwind"
                /\ outcome'[t].kind = "OSError"
                /\ outcome'[t].by = "_exec_command"
                /\ result'[t].exit_code = None]_vars
    /\ [](\A t \in Threads :
            outcome[t].kind = "OSError" /\ outcome[t].by = "_exec_command" =>
                /\ pc[t] \in {"unwind", "idle"}
                /\ killMark[t] # None /\ proc[t].kills = 0
                /\ result[t].exit_code = None)

\* a call ended by the OSError of the kill, its process still running
C13_Witness ==
    \E t \in Threads :
        /\ Ended(t, {"OSError"}) /\ outcome[t].by = "_exec_command"
        /\ killMark[t] # None
        /\ proc[t].state = "running"

\* C14: when the kill raised OSError and the poll that follows finds the
\* process ended, nothing is raised: the call goes on to return the result
\* with the exit code of the process.
C14_ExitedBeforeKillIsReturned ==
    /\ [][\A t \in Threads :
            pc[t] = "oserr" /\ pc'[t] # "oserr" /\ proc[t].state = "exited" =>
                /\ pc'[t] = "summary"
                /\ outcome'[t].kind = "none"
                /\ result'[t].exit_code # None
                /\ result'[t].exit_code = proc[t].returncode]_vars
    /\ [](\A t \in Threads :
            killMark[t] # None /\ proc[t].kills = 0 /\ exit_code[t] # None =>
                /\ pc[t] \in {"summary", "idle"}
                /\ outcome[t].kind \in {"none", "returned"}
                /\ pc[t] = "idle" => outcome[t].kind = "returned"
                /\ result[t].exit_code = proc[t].returncode)

\* a call returned with the exit code found after the kill had failed
C14_Witness ==
    \E t \in Threads :
        /\ Ended(t, {"returned"})
        /\ killMark[t] # None /\ proc[t].kills = 0
        /\ result[t].exit_code # None
        /\ result[t].exit_code = proc[t].returncode

\* C15: the timeout error is raised only for a process that has not ended
\* by the end of the wait that follows the kill; a process that ended
\* within that wait is not reported as a timeout.
C15_TimeoutErrorOnlyWithoutExitCode ==
    [][\A t \in Threads :
          /\ outcome[t].kind # "ExecHelperTimeoutError"
          /\ outcome'[t].kind = "ExecHelperTimeoutError"
          => proc[t].state = "running"]_vars

\* C16: a call without timeout never has its wait give up: _exec_command
\* attempts no kill and raises no timeout error, it leaves the wait only
\* when the process has ended, and the result it returns has the exit code
\* of the process.
C16_NoTimeoutWaitsForExit ==
    \A t \in Threads :
        req[t].timeout = None =>
            /\ ~expired[t] /\ killMark[t] = None
            /\ pc[t] \notin {"poll", "kill", "join5", "oserr"}
            /\ outcome[t].kind # "ExecHelperTimeoutError"
            /\ pc[t] \in {"join1", "summary"} =>
                  /\ proc[t].state = "exited"
                  /\ exit_code[t] = proc[t].returncode
            /\ Ended(t, {"returned"}) =>
                  /\ proc[t].state = "exited"
                  /\ result[t].exit_code # None
                  /\ result[t].exit_code = proc[t].returncode

\* a call without timeout returned after its process had written and ended
C16_Witness ==
    \E t \in Threads :
        /\ req[t].command # <<>> /\ req[t].timeout = None
        /\ Ended(t, {"returned"})
        /\ written[t]["stdout"] > 0
        /\ proc[t].state = "exited"
        /\ result[t].exit_code = proc[t].returncode

\* the text holds the redaction marker
HasMarker(text) == \E i \in 1..Len(text) : text[i] = MASKED

\* C17: the command the process was started with is the caller's command
\* as given, neither trimmed nor masked, whatever the instance's and the
\* call's masking rules are; the redaction marker is found in the log and
\* in ExecResult.cmd only.
C17_SpawnedCommandIsNeverMasked ==
    \A t \in Threads :
        proc[t].state # "none" =>
            /\ proc[t].args = req[t].command
            /\ ~HasMarker(proc[t].args)

\* a process running the caller's command while the result and the log
\* hold its masked text
C17_Witness ==
    \E t \in Threads :
        /\ proc[t].state # "none"
        /\ proc[t].args = req[t].command
        /\ HasMarker(result[t].cmd) /\ result[t].cmd # req[t].command
        /\ \E i \in 1..Len(log[t]) :
              log[t][i].msg = "CMD_EXEC" /\ log[t][i].cmd = result[t].cmd

\* the positions (0-based) of a text that lie inside the span of a group
\* that took part in one of the matches
GroupPositions(ms, groups) ==
    {i \in 0..MaxLen + 1 :
        \E k \in 1..Len(ms) : \E n \in 1..groups :
            /\ ms[k].g[n] # NoSpan
            /\ ms[k].g[n][1] <= i /\ i < ms[k].g[n][2]}

RECURSIVE Outside(_, _, _)
\* the characters of the text from position i on that lie outside cov
Outside(text, cov, i) ==
    IF i >= Len(text) THEN <<>>
    ELSE (IF i \in cov THEN <<>> ELSE <<text[i + 1]>>) \o Outside(text, cov, i + 1)

NotMarker(c) == c # MASKED

\* C18: masking a text with one rule that has capturing groups gives the
\* characters outside the group spans of the matches, unchanged and in
\* order, with the marker where a group was; no character inside a group
\* span is left, also with nested groups and groups that took no part.
C18_GroupSpansAreReplaced ==
    /\ masking.out # None
    /\ ~Truthy(self_log_mask_re)
    /\ Truthy(masking.log_mask_re)
    /\ Compile(masking.log_mask_re[1]).groups > 0
    => LET rules == masking.log_mask_re[1]
           text == rstrip(masking.cmd)
           cov == GroupPositions(finditer(rules, text, 0), Compile(rules).groups)
           out == masking.out[1]
       IN  /\ SelectSeq(out, NotMarker) = Outside(text, cov, 0)
           /\ cov # {} => HasMarker(out)

\* the rule is absent, empty or has no capturing group
ZeroGroups(re) == ~Truthy(re) \/ Compile(re[1]).groups = 0

\* C19: when neither the instance's rule nor the call's rule has a
\* capturing group, _mask_command returns the command without its trailing
\* whitespace and otherwise unchanged, whatever the rules match.
C19_ZeroGroupRulesOnlyTrim ==
    /\ masking.out # None
    /\ ZeroGroups(self_log_mask_re)
    /\ ZeroGroups(masking.log_mask_re)
    => LET cmd == masking.cmd
           out == masking.out[1]
       IN  /\ IsPrefix(out, cmd)
           /\ \A i \in Len(out) + 1..Len(cmd) : cmd[i] \in Whitespace
           /\ out # <<>> => out[Len(out)] \notin Whitespace

\* a command ending in whitespace, masked with a rule without group that
\* matches part of it
C19_Witness ==
    /\ masking.out # None
    /\ ZeroGroups(self_log_mask_re)
    /\ Truthy(masking.log_mask_re) /\ ZeroGroups(masking.log_mask_re)
    /\ \E k \in 1..Len(finditer(masking.log_mask_re[1], masking.out[1], 0)) :
          LET m == finditer(masking.log_mask_re[1], masking.out[1], 0)[k]
          IN  m.end > m.start
    /\ Len(masking.out[1]) < Len(masking.cmd)

\* C20: a call of execute() whose command is empty after trimming has no
\* process spawned for it.
C20_BlankCommandSpawnsNothing ==
    \A t \in Threads :
        pc[t] # "idle" /\ rstrip(req[t].command) = <<>> => proc[t].state = "none"

\* C21: a call of execute() that gives a timeout never waits without bound:
\* from the launch to the return or raise, whatever the process and the
\* drainers do or fail to do, the next step of the caller is one it can
\* take; so _exec_command returns or raises and execute() releases the
\* lock.
C21_FiniteTimeoutNeverBlocks ==
    \A t \in Threads :
        InExecute(t) /\ req[t].timeout # None => ENABLED CallerStep(t)

\* C22: _exec_command sends the kill at most once, and only when the wait
\* has timed out, the poll that follows found no exit code and the first
\* join is over; no kill follows an exit code that was read; the exit code
\* is stored in the result once, right before the return, and never when
\* the timeout error is raised.
C22_KillOnceAfterTimeoutAndRecheck ==
    \A t \in Threads :
        /\ proc[t].kills <= 1
        /\ pc[t] = "kill" =>
              expired[t] /\ exit_code[t] = None /\ proc[t].kills = 0
        /\ killMark[t] # None =>
              /\ expired[t]
              /\ pc[t] \notin {"start", "wait", "poll", "join1", "kill"}
        /\ pc[t] = "join5" => proc[t].kills = 1 /\ exit_code[t] = None
        /\ exit_code[t] # None => (proc[t].kills = 0 /\ pc[t] # "kill")
        /\ result[t].exit_code # None =>
              /\ pc[t] \in {"summary", "idle"}
              /\ result[t].exit_code = exit_code[t]
              /\ outcome[t].kind \in {"none", "returned"}
        /\ outcome[t].kind = "ExecHelperTimeoutError" =>
              /\ proc[t].kills = 1 /\ expired[t]
              /\ result[t].exit_code = None

\* the timeout error was raised for a process that the one kill has ended
C22_Witness ==
    \E t \in Threads :
        /\ Ended(t, {"ExecHelperTimeoutError"})
        /\ expired[t] /\ proc[t].kills = 1
        /\ proc[t].returncode = Some(KilledCode)
        /\ result[t].exit_code = None

\* C23: the launcher closes the input stream of the process exactly when a
\* payload was given and its write did not end the launch: with a payload
\* the stream is closed after the write, so the process has the payload
\* (unless the pipe was broken) and then end-of-input; a fatal write error
\* leaves it open, the process killed and the OSError raised; without a
\* payload nothing is written and the stream stays open through the launch
\* and the wait.
C23_StdinClosedIffPayloadGiven ==
    \A t \in Threads :
        proc[t].state # "none" /\ pc[t] # "write" =>
            /\ req[t].stdin = None =>
                  proc[t].stdin_data = None /\ ~proc[t].stdin_closed
            /\ req[t].stdin # None =>
                  \/ /\ proc[t].stdin_closed
                     /\ proc[t].stdin_data \in {None, req[t].stdin}
                     /\ proc[t].stdin_data = None /\ outcome[t].by # "execute_async"
                           => HasStdinWarning(t)
                  \/ /\ ~proc[t].stdin_closed
                     /\ proc[t].stdin_data = None
                     /\ outcome[t].kind = "OSError"
                     /\ outcome[t].by = "execute_async"
                     /\ outcome[t].errno \notin {"", EINVAL, EPIPE, ESHUTDOWN}
                     /\ proc[t].kills = 1
            /\ proc[t].stdin_closed <=>
                  /\ req[t].stdin # None
                  /\ ~(outcome[t].by = "execute_async" /\ proc[t].stdin_data = None
                       /\ ~proc[t].stdin_closed)

\* a call that gave a payload has returned the exit code of its process,
\* which had the payload and then end-of-input
C23_Witness ==
    \E t \in Threads :
        /\ Ended(t, {"returned"})
        /\ req[t].stdin # None
        /\ proc[t].stdin_data = req[t].stdin /\ proc[t].stdin_closed
        /\ proc[t].kills = 0
        /\ result[t].exit_code = proc[t].returncode

====
